---- MODULE Spec2Model ----
\* Model of doctoshotgun.py: the orchestration loop of Application.main, the
\* center generator Doctolib.find_centers, Doctolib.try_to_book and the
\* booking transaction Doctolib.try_to_book_place, one action per HTTP request
\* (every request is a point where the session can raise), with the service's
\* answers drawn from small sets.
EXTENDS Integers, Sequences, FiniteSets, TLC

\* ------------------------------------------------------------------ bounds
\* search results on one city page
MaxResults == 1
\* places of one center
MaxPlaces == 2
\* next_slot hints the service gives for one place
MaxPolls == 1
\* leading day-entries with an empty slots array in an availability payload
MaxDays == 1
\* appointments the service can hold at once
MaxAppointments == 2
\* day-entries of an availability payload handed to find_best_slot on its own
MaxEntries == 3
\* agendas of a booking page handed to get_agenda_ids on its own
MaxAgendas == 2
\* characters of a string handed to normalize
MaxChars == 3

\* ------------------------------------------------------- values and inputs
None == 0
Today == 1
Dates == {1, 2}
\* a timestamp is an ISO date-time string 'YYYY-MM-DDTHH:MM...', here its date
\* and its time; NoTime: no timestamp
NoTime == [date |-> 0, time |-> 0]

Cities == {"berlin", "paris"}
NoCenter == [name_with_title |-> "none", id |-> 0]
\* the hard-coded center of line 215
BerlinCenter == [name_with_title |-> "Corona Impfzentren - Berlin", id |-> 0]
\* the search_result record of the i-th search result id
ResultCenter(i) == [name_with_title |-> "search_result", id |-> i]

\* Slot values a payload can carry. kind "null" is any falsy JSON value (null,
\* 0, "", {}), "scalar" a truthy value that is no dict (a string, a number),
\* "dict" a JSON object; start_date = NoTime: the object has no 'start_date'
\* key; step1 = NoTime: it has no steps[1].start_date.
NullSlot == [kind |-> "null", start_date |-> NoTime, step1 |-> NoTime]
ScalarSlot == [kind |-> "scalar", start_date |-> NoTime, step1 |-> NoTime]
DictSlots == {[kind |-> "dict", start_date |-> s, step1 |-> p] :
                 s \in {NoTime, [date |-> 1, time |-> 1], [date |-> 1, time |-> 2]},
                 p \in {NoTime, [date |-> 2, time |-> 1]}}
SlotVals == {NullSlot, ScalarSlot} \cup DictSlots

EmptyDays(k) == [i \in 1..k |-> [slots |-> <<>>]]
\* availability payloads of the service: up to MaxDays day-entries without
\* slots, or MaxDays of them and then a day with a slot (days with several
\* slots, and slots after fewer empty days: DayEntries below)
Payloads ==
    {EmptyDays(k) : k \in 0..MaxDays}
    \cup {EmptyDays(MaxDays) \o <<[slots |-> <<s>>]>> : s \in SlotVals}

\* booking pages (data.visit_motives, data.places, data.agendas)
VisitMotiveDocs ==
    { <<>>,
      <<[id |-> 1, name |-> "AstraZeneca"]>>,
      <<[id |-> 1, name |-> "AstraZeneca"], [id |-> 2, name |-> "Pfizer"]>>,
      <<[id |-> 1, name |-> "Moderna"], [id |-> 2, name |-> "Pfizer"]>> }
\* data.places: n places, the i-th with practice_ids = [i]
PlaceDocs == {[i \in 1..n |-> i] : n \in 0..MaxPlaces}
AgendaDocs ==
    { <<>>,
      <<[id |-> 1, visit_motive_ids |-> {2}, booking_disabled |-> FALSE, practice_id |-> 1]>>,
      <<[id |-> 1, visit_motive_ids |-> {1, 2}, booking_disabled |-> FALSE, practice_id |-> 2],
        [id |-> 2, visit_motive_ids |-> {2}, booking_disabled |-> TRUE, practice_id |-> 1]>> }

\* custom fields of the appointment-edit view, and the lines the user can type
FieldDocs ==
    { <<>>,
      <<[id |-> "cov19", required |-> TRUE, placeholder |-> "Oui"]>>,
      <<[id |-> "f1", required |-> TRUE, placeholder |-> ""]>>,
      <<[id |-> "cov19", required |-> TRUE, placeholder |-> "Oui"],
        [id |-> "f1", required |-> TRUE, placeholder |-> "ph"],
        [id |-> "f2", required |-> FALSE, placeholder |-> ""],
        [id |-> "f3", required |-> TRUE, placeholder |-> ""]>> }
\* a line of standard input: its text between the surrounding whitespace, and
\* whether there is whitespace around it besides the newline
Lines == {[text |-> "", padded |-> FALSE], [text |-> "typed", padded |-> TRUE]}

\* all sequences over S of at most n elements
SeqsUpTo(S, n) == UNION {[1..k -> S] : k \in 0..n}

\* day-entries of an availability payload: no slot, one, two
DayEntries ==
    {[slots |-> s] :
        s \in { <<>>,
                <<[kind |-> "dict", start_date |-> [date |-> 1, time |-> 1], step1 |-> NoTime]>>,
                <<[kind |-> "dict", start_date |-> [date |-> 1, time |-> 1], step1 |-> NoTime],
                  [kind |-> "dict", start_date |-> [date |-> 1, time |-> 2], step1 |-> NoTime]>>,
                <<[kind |-> "dict", start_date |-> [date |-> 1, time |-> 2], step1 |-> NoTime],
                  [kind |-> "dict", start_date |-> [date |-> 1, time |-> 1], step1 |-> NoTime]>>,
                <<[kind |-> "dict", start_date |-> [date |-> 1, time |-> 1], step1 |-> NoTime],
                  ScalarSlot>> }}
\* data.agendas of at most MaxAgendas agendas, the i-th with id 10 + i
AgendaLists ==
    UNION {{[i \in 1..n |-> [id |-> 10 + i, visit_motive_ids |-> sh[i].visit_motive_ids,
                             booking_disabled |-> sh[i].booking_disabled,
                             practice_id |-> sh[i].practice_id]] :
               sh \in [1..n -> [visit_motive_ids : SUBSET {1, 2},
                                booking_disabled : BOOLEAN,
                                practice_id : {1, 2}]]} :
           n \in 0..MaxAgendas}
\* results of find_motive: the ids of the matching motives, in page order
MotiveIdLists == {<<>>, <<1>>, <<2>>, <<1, 2>>, <<2, 1>>}
\* characters of a city name: letters of both cases, an accented letter,
\* a digit, the underscore, a space, a hyphen
Chars == {"a", "B", "é", "7", "_", " ", "-"}

\* self.page.doc, as far as the code reads it: data.visit_motives of a booking
\* page, next_slot (None: the key is absent) and availabilities of an
\* availability page, appointment.custom_fields of an appointment-edit page
NoDoc == [visit_motives |-> <<>>, next_slot |-> None, availabilities |-> <<>>,
          custom_fields |-> <<>>]
\* the query parameters of a GET request, as far as they vary
NoParams == [start_date |-> None, visit_motive_ids |-> "", agenda_ids |-> "",
             first_slot |-> NoTime, practice_ids |-> None]
\* the dict data of lines 286-293 and 318, and of lines 344-353, as far as it
\* varies (second_slot = NoTime, custom_fields_values = <<>>: no such key)
NoData == [agenda_ids |-> "", start_date |-> NoTime, visit_motive_ids |-> "",
           practice_ids |-> None, second_slot |-> NoTime,
           custom_fields_values |-> <<>>]
\* availability pages that carry a next_slot hint: one for today without
\* availabilities, one for a later day with a slot
HintDocs ==
    { [NoDoc EXCEPT !.next_slot = 1],
      [NoDoc EXCEPT !.next_slot = 2,
                    !.availabilities =
                        <<[slots |-> <<[kind |-> "dict",
                                        start_date |-> [date |-> 1, time |-> 1],
                                        step1 |-> [date |-> 2, time |-> 1]]>>]>>] }

\* ------------------------------------------------------------------- state
VARIABLES
    city,        \* the normalized city token (main, line 426)
    pc,          \* position of the single control thread
    exitCode,    \* -1 while running, else the process exit status
    exc,         \* the exception last raised ("none" when none)
    result,      \* last value returned by try_to_book_place: "none", "True", "False"
    searchStatus, \* HTTP status of the answer to the generator's centers.go (None: none yet)
    nIds,        \* number of search result ids of the current find_centers generator
    genPos,      \* ids consumed by the generator (nIds + 1: fallback center yielded)
    yielded,     \* centers the current generator has yielded, in order
    center,      \* the center main is working on (NoCenter when none)
    motive_ids,  \* try_to_book: find_motive(...)
    places,      \* try_to_book: get_places(), the practice_ids[0] of each
    agendas,     \* try_to_book: data.agendas of center_page
    placeIdx,    \* try_to_book: places entered by the for loop
    practice_id, \* try_to_book_place argument
    agenda_ids,  \* try_to_book_place argument
    date,        \* try_to_book_place: the poller's date
    polls,       \* next_slot hints followed for this place
    slot,        \* try_to_book_place: the first-dose slot
    second_slot, \* try_to_book_place: data['second_slot']
    a_id,        \* try_to_book_place: id of the appointment being finalized
    custom_fields, \* try_to_book_place: the custom_fields dict
    appts,       \* the service: appointment id -> "free", "created", "confirmed"
    mine,        \* id of the appointment created by the current transaction
    lastReq,     \* the request the last step issued ("none" when it issued none)
    reqs,        \* requests the current try_to_book_place call issued after polling
    confirmed,   \* 'confirmed' of the last re-fetched appointment
    doc,         \* self.page.doc of the answer to the last step's request (NoDoc: none)
    params,      \* query parameters of the last step's GET request (NoParams: none)
    body,        \* JSON body of the last step's appointment.go (NoData: none)
    data,        \* try_to_book_place: the dict data of line 286
    created,     \* the body the current call's first-dose create request carried
    lookups,     \* practice_id arguments of the get_agenda_ids calls for this place
    prompted,    \* custom fields the user was prompted for, with the line read
    fn,          \* the function applied on its own ("none": the program runs)
    args,        \* its arguments
    ret          \* <<>> before it returns, then <<its result>>

genVars == <<searchStatus, nIds, genPos, yielded>>
bookVars == <<center, motive_ids, places, agendas, placeIdx>>
txVars == <<data, created, lookups, prompted>>
placeVars == <<practice_id, agenda_ids, date, polls, slot, second_slot, a_id,
              custom_fields, mine, reqs, result, confirmed, txVars>>
\* what the last step sent and received
wireVars == <<lastReq, doc, params, body>>
progVars == <<city, pc, exitCode, exc, genVars, bookVars, placeVars, appts, wireVars>>
fnVars == <<fn, args, ret>>
vars == <<progVars, fnVars>>

ApptIds == 1..MaxAppointments
\* appointments created and neither confirmed nor cancelled
Outstanding == {i \in ApptIds : appts[i] = "created"}

\* the program before the first sweep
ProgramInit ==
    /\ city \in Cities
    /\ pc = "sweep"
    /\ exitCode = -1
    /\ exc = "none"
    /\ result = "none"
    /\ searchStatus = None /\ nIds = 0 /\ genPos = 0 /\ yielded = <<>>
    /\ center = NoCenter
    /\ motive_ids = <<>> /\ places = <<>> /\ agendas = <<>> /\ placeIdx = 0
    /\ practice_id = None /\ agenda_ids = <<>>
    /\ date = None /\ polls = 0
    /\ slot = NullSlot /\ second_slot = NoTime /\ a_id = None /\ mine = None
    /\ custom_fields = <<>>
    /\ appts = [i \in ApptIds |-> "free"]
    /\ lastReq = "none"
    /\ reqs = <<>>
    /\ confirmed = FALSE
    /\ doc = NoDoc /\ params = NoParams /\ body = NoData
    /\ data = NoData /\ created = NoData /\ lookups = <<>> /\ prompted = <<>>

Init ==
    /\ ProgramInit
    /\ fn = "none" /\ args = <<>> /\ ret = <<>>

\* ---------------------------------------------------------- pure functions
\* mutant: the filter lets every vaccine through
MatchesAnyVaccine(name) == name \in {"Pfizer", "Moderna", "Janssen", "AstraZeneca"}

\* re.search(r'.*(Pfizer|Moderna|Janssen)', name), line 236
MatchesVaccine(name) == name \in {"Pfizer", "Moderna", "Janssen"}

\* CenterBookingPage.find_motive
find_motive(visit_motives) ==
    LET m == SelectSeq(visit_motives, LAMBDA s : MatchesVaccine(s.name))
    IN [i \in 1..Len(m) |-> m[i].id]

\* the inner loop of get_agenda_ids for one agenda: one append per motive id
\* that satisfies the condition of lines 98-100
RECURSIVE AgendaAppends(_, _, _)
AgendaAppends(a, mids, practice) ==
    IF mids = <<>> THEN <<>>
    ELSE (IF /\ Head(mids) \in a.visit_motive_ids
             /\ ~a.booking_disabled
             /\ (practice = None \/ a.practice_id = practice)
          THEN <<a.id>> ELSE <<>>)
         \o AgendaAppends(a, Tail(mids), practice)

\* CenterBookingPage.get_agenda_ids; practice = None: no practice_id given
RECURSIVE get_agenda_ids(_, _, _)
get_agenda_ids(ags, mids, practice) ==
    IF ags = <<>> THEN <<>>
    ELSE AgendaAppends(Head(ags), mids, practice)
         \o get_agenda_ids(Tail(ags), mids, practice)

\* mutant: the first slot of the day is returned
RECURSIVE find_best_slot_first(_)
find_best_slot_first(availabilities) ==
    IF availabilities = <<>> THEN NullSlot
    ELSE IF Len(Head(availabilities).slots) = 0
         THEN find_best_slot_first(Tail(availabilities))
         ELSE Head(availabilities).slots[1]

\* AvailabilitiesPage.find_best_slot; Python's None is the falsy NullSlot
RECURSIVE find_best_slot(_)
find_best_slot(availabilities) ==
    IF availabilities = <<>> THEN NullSlot
    ELSE IF Len(Head(availabilities).slots) = 0
         THEN find_best_slot(Tail(availabilities))
         ELSE Head(availabilities).slots[Len(Head(availabilities).slots)]

\* 'not slot'
Falsy(s) == s.kind = "null"
\* isinstance(slot, dict)
IsDict(s) == s.kind = "dict"
\* slot['start_date'] raises KeyError on a dict without the key, TypeError on
\* a scalar
HasStartDate(s) == IsDict(s) /\ s.start_date # NoTime
\* slot['steps'][1]['start_date'] can be read
HasStep1(s) == IsDict(s) /\ s.step1 # NoTime
\* ts.split('T')[0]
DatePart(ts) == ts.date

\* '-'.join(ids), the ids being the str() of integers
RECURSIVE Join(_)
Join(ids) ==
    IF ids = <<>> THEN ""
    ELSE IF Len(ids) = 1 THEN ToString(ids[1])
    ELSE ToString(ids[1]) \o "-" \o Join(Tail(ids))

\* line.strip()
strip(line) == line.text

\* lines 334-340: whether the field's value is read from standard input
Prompts(field) == field.id # "cov19" /\ field.placeholder = ""

\* unicodedata.normalize('NFKD', c) of one character: a precomposed letter is
\* a base letter and a combining mark
Decompose(c) ==
    IF c = "é" THEN <<"e", "COMBINING ACUTE ACCENT">> ELSE <<c>>

\* unicodedata.normalize('NFKD', string), line 224
RECURSIVE NFKD(_)
NFKD(string) ==
    IF string = <<>> THEN <<>> ELSE Decompose(Head(string)) \o NFKD(Tail(string))

\* unicodedata.combining(c) is non-zero
combining(c) == c = "COMBINING ACUTE ACCENT"

\* line 225: the characters that are no combining marks
StripCombining(string) == SelectSeq(string, LAMBDA c : ~combining(c))

\* \w of a str pattern: letters, digits and the underscore
WordChars == {"a", "b", "e", "B", "E", "é", "_", "7"}

\* mutant: a run of non-word characters becomes one hyphen, re.sub(r'\W+', ...)
RECURSIVE SubNonWordRuns(_)
SubNonWordRuns(string) ==
    IF string = <<>> THEN <<>>
    ELSE IF Head(string) \in WordChars
         THEN <<Head(string)>> \o SubNonWordRuns(Tail(string))
         ELSE IF Tail(string) # <<>> /\ Head(Tail(string)) \notin WordChars
              THEN SubNonWordRuns(Tail(string))
              ELSE <<"-">> \o SubNonWordRuns(Tail(string))

\* re.sub(r'\W', '-', string), line 226
SubNonWord(string) ==
    [i \in 1..Len(string) |-> IF string[i] \in WordChars THEN string[i] ELSE "-"]

\* str.lower of one character
LowerChar(c) == IF c = "B" THEN "b" ELSE IF c = "E" THEN "e" ELSE c

\* str.lower, line 227
lower(string) == [i \in 1..Len(string) |-> LowerChar(string[i])]

\* Doctolib.normalize
normalize(string) == lower(SubNonWord(StripCombining(NFKD(string))))

\* mutant: the placeholder is looked at before the cov19 id
FieldValuePlaceholderFirst(field, line) ==
    IF field.placeholder # "" THEN field.placeholder
    ELSE IF field.id = "cov19" THEN "Non"
    ELSE strip(line)

\* the value of one required custom field, lines 334-340
FieldValue(field, line) ==
    IF field.id = "cov19" THEN "Non"
    ELSE IF field.placeholder # "" THEN field.placeholder
    ELSE strip(line)

\* the readline calls of the loop of lines 333-342, in order: the id of the
\* field prompted for and the line read
RECURSIVE Readlines(_, _, _)
Readlines(fields, lines, i) ==
    IF i > Len(fields) THEN <<>>
    ELSE (IF fields[i].required /\ Prompts(fields[i])
          THEN <<[id |-> fields[i].id, line |-> lines[i]]>> ELSE <<>>)
         \o Readlines(fields, lines, i + 1)

\* the custom_fields dict of lines 332-342: the required fields of
\* get_custom_fields in order, lines[i] being the line read for fields[i]
RECURSIVE BuildCustomFields(_, _, _)
BuildCustomFields(fields, lines, i) ==
    IF i > Len(fields) THEN <<>>
    ELSE IF fields[i].required
         THEN BuildCustomFields(fields, lines, i + 1)
              @@ (fields[i].id :> FieldValue(fields[i], lines[i]))
         ELSE BuildCustomFields(fields, lines, i + 1)


\* --------------------------------------------------------------- exceptions
TransientErrors == {"ReadTimeout", "ReadTimeoutError", "ConnectionError"}
\* what a woob request raises besides: an HTTP status >= 400
HttpErrors == {"ClientError", "ServerError"}

\* the step leaves no answer to read, and what it sent is of no interest
NoWire == doc' = NoDoc /\ params' = NoParams /\ body' = NoData

\* the locals of try_to_book are gone (return or unwinding)
ClearBook ==
    /\ center' = NoCenter
    /\ motive_ids' = <<>> /\ places' = <<>> /\ agendas' = <<>> /\ placeIdx' = 0

\* the locals of try_to_book_place are gone (return or unwinding)
ClearLocals ==
    /\ practice_id' = None /\ agenda_ids' = <<>>
    /\ date' = None /\ polls' = 0
    /\ slot' = NullSlot /\ second_slot' = NoTime /\ a_id' = None
    /\ custom_fields' = <<>>
    /\ data' = NoData /\ created' = NoData /\ lookups' = <<>> /\ prompted' = <<>>

ClearPlace ==
    /\ ClearLocals
    /\ mine' = None /\ reqs' = <<>> /\ result' = "none" /\ confirmed' = FALSE

\* mutant: the network exceptions are handled inside the for loop, which goes
\* on with the next center
ExceptResume(e) ==
    /\ exc' = e
    /\ IF e \in TransientErrors
       THEN pc' = "sleep_center" /\ exitCode' = exitCode
       ELSE IF e = "CityNotFound"
            THEN pc' = "done" /\ exitCode' = 1
            ELSE pc' = "crashed" /\ exitCode' = 1
    /\ ClearBook
    /\ ClearPlace

\* mutant: the network exceptions are not caught
ExceptUncaught(e) ==
    /\ exc' = e
    /\ IF e = "CityNotFound"
       THEN pc' = "done" /\ exitCode' = 1
       ELSE pc' = "crashed" /\ exitCode' = 1
    /\ ClearBook
    /\ ClearPlace

\* Application.main, lines 438-444: CityNotFound returns 1, the three network
\* exceptions print and fall through to sleep(1); anything else is uncaught
\* and ends the process with a traceback (status 1)
Except(e) ==
    /\ exc' = e
    /\ IF e \in TransientErrors
       THEN pc' = "sleep_sweep" /\ exitCode' = exitCode
       ELSE IF e = "CityNotFound"
            THEN pc' = "done" /\ exitCode' = 1
            ELSE pc' = "crashed" /\ exitCode' = 1
    /\ ClearBook
    /\ ClearPlace

\* mutant: 503 is not singled out
find_centers_outcome_no503(kind, status) ==
    IF kind = "ServerError" THEN "ServerError"
    ELSE IF kind = "HTTPNotFound" THEN "CityNotFound"
    ELSE "iterate"

\* mutant: not-found is taken for an empty result
find_centers_outcome_404empty(kind, status) ==
    IF kind = "ServerError"
    THEN IF status \in {503} THEN "return" ELSE "ServerError"
    ELSE IF kind = "HTTPNotFound" THEN "return"
    ELSE "iterate"

\* find_centers, lines 198-205: what the generator does with the answer of
\* centers.go: "return" (end without a center), "iterate", or the exception
\* that leaves it
find_centers_outcome(kind, status) ==
    IF kind = "ServerError"
    THEN IF status \in {503} THEN "return" ELSE "ServerError"
    ELSE IF kind = "HTTPNotFound" THEN "CityNotFound"
    ELSE "iterate"

\* mutant: the token is compared before normalization
YieldsFallbackCapital(c) == c = "Berlin"

\* line 214
YieldsFallback(c) == c = "berlin"

\* a request raises a network exception or an HTTP error
Raises(url) ==
    \E e \in TransientErrors \cup HttpErrors :
        /\ lastReq' = url
        /\ NoWire
        /\ Except(e)
        /\ UNCHANGED <<city, genVars, appts>>

\* an uncaught KeyError / TypeError / IndexError raised by the code itself
\* after the answer to request url
Crash(url, e) ==
    /\ lastReq' = url
    /\ NoWire
    /\ Except(e)
    /\ UNCHANGED <<city, genVars, appts>>

\* ----------------------------------------------------- the orchestration loop
\* main line 430: find_centers(city) makes a new generator, whose first
\* resumption issues centers.go (line 199)
Sweep ==
    /\ pc = "sweep"
    /\ UNCHANGED fnVars
    /\ \/ \E r \in {[kind |-> "ok", status |-> 200],
                    [kind |-> "ServerError", status |-> 503],
                    [kind |-> "ServerError", status |-> 500],
                    [kind |-> "HTTPNotFound", status |-> 404]} :
            LET o == find_centers_outcome(r.kind, r.status) IN
            /\ lastReq' = "centers"
            /\ NoWire
            /\ searchStatus' = r.status
            /\ genPos' = 0
            /\ yielded' = <<>>
            /\ IF o = "iterate"
               THEN /\ \E n \in 0..MaxResults : nIds' = n
                    /\ pc' = "gen"
                    /\ UNCHANGED <<exitCode, exc, bookVars, placeVars>>
               ELSE IF o = "return"
                    \* StopIteration: the for loop ends, line 444 follows
                    THEN /\ nIds' = 0
                         /\ pc' = "sleep_sweep"
                         /\ UNCHANGED <<exitCode, exc, bookVars, placeVars>>
                    ELSE nIds' = 0 /\ Except(o)
            /\ UNCHANGED <<city, appts>>
       \/ \* the request raises a network exception or another client error
          \E e \in TransientErrors \cup {"ClientError"} :
            /\ lastReq' = "centers"
            /\ NoWire
            /\ searchStatus' = None /\ nIds' = 0 /\ genPos' = 0 /\ yielded' = <<>>
            /\ Except(e)
            /\ UNCHANGED <<city, appts>>

\* the generator is resumed: lines 207-215
GenNext ==
    /\ pc = "gen"
    /\ UNCHANGED fnVars
    /\ \/ /\ genPos < nIds
          /\ \E has_search_result \in BOOLEAN :
                /\ lastReq' = "center_result"
                /\ NoWire
                /\ genPos' = genPos + 1
                /\ IF has_search_result
                   THEN /\ yielded' = Append(yielded, ResultCenter(genPos + 1))
                        /\ center' = ResultCenter(genPos + 1)
                        /\ pc' = "book_open"
                   ELSE \* KeyError: pass
                        /\ UNCHANGED <<yielded, center>>
                        /\ pc' = "gen"
          /\ UNCHANGED <<city, exitCode, exc, searchStatus, nIds, motive_ids, places,
                         agendas, placeIdx, placeVars, appts>>
       \/ /\ genPos < nIds
          /\ Raises("center_result")
       \/ /\ genPos = nIds
          /\ YieldsFallback(city)
          /\ genPos' = genPos + 1
          /\ yielded' = Append(yielded, BerlinCenter)
          /\ center' = BerlinCenter
          /\ pc' = "book_open"
          /\ lastReq' = "none"
          /\ NoWire
          /\ UNCHANGED <<city, exitCode, exc, searchStatus, nIds, motive_ids, places,
                         agendas, placeIdx, placeVars, appts>>
       \/ \* StopIteration: the for loop of line 430 ends
          /\ genPos >= nIds
          /\ ~(genPos = nIds /\ YieldsFallback(city))
          /\ pc' = "sleep_sweep"
          /\ lastReq' = "none"
          /\ NoWire
          /\ UNCHANGED <<city, exitCode, exc, genVars, bookVars, placeVars, appts>>

\* sleep(1) of line 437, then the for loop resumes the generator
SleepCenter ==
    /\ pc = "sleep_center"
    /\ UNCHANGED fnVars
    /\ pc' = "gen"
    /\ lastReq' = "none"
    /\ NoWire
    /\ UNCHANGED <<city, exitCode, exc, genVars, bookVars, placeVars, appts>>

\* sleep(1) of line 444, then the while loop starts the next sweep
SleepSweep ==
    /\ pc = "sleep_sweep"
    /\ UNCHANGED fnVars
    /\ pc' = "sweep"
    /\ exc' = "none"
    /\ lastReq' = "none"
    /\ NoWire
    /\ UNCHANGED <<city, exitCode, genVars, bookVars, placeVars, appts>>

\* ------------------------------------------------------------- try_to_book
\* line 230: self.open(center['url'])
BookOpen ==
    /\ pc = "book_open"
    /\ UNCHANGED fnVars
    /\ \/ /\ lastReq' = "center_url"
          /\ NoWire
          /\ pc' = "book_page"
          /\ UNCHANGED <<city, exitCode, exc, genVars, bookVars, placeVars, appts>>
       \/ /\ Raises("center_url")

\* lines 234-241: center_booking.go, find_motive, and the early return when no
\* motive matches
BookPage ==
    /\ pc = "book_page"
    /\ UNCHANGED fnVars
    /\ \/ \E vm \in VisitMotiveDocs, pl \in PlaceDocs, ag \in AgendaDocs :
            /\ lastReq' = "center_booking"
            /\ doc' = [NoDoc EXCEPT !.visit_motives = vm]
            /\ params' = NoParams /\ body' = NoData
            /\ IF find_motive(vm) = <<>>
               THEN /\ pc' = "sleep_center"
                    /\ ClearBook
               ELSE /\ pc' = "place"
                    /\ motive_ids' = find_motive(vm)
                    /\ places' = pl /\ agendas' = ag
                    /\ placeIdx' = 0
                    /\ center' = center
            /\ UNCHANGED <<city, exitCode, exc, genVars, placeVars, appts>>
       \/ /\ Raises("center_booking")

\* mutant: the loop stays on the place it has entered
SamePlaceIdx(i) == IF i = 0 THEN 1 ELSE i

\* line 243: the index of the place the for loop enters after place i
NextPlaceIdx(i) == i + 1

\* mutant: the practice-scoped lookup is used even when it is empty
ResolveAgendaIdsScopedOnly(scoped, unscoped) == scoped

\* lines 246-249: the agenda ids of a place, from the practice-scoped lookup
\* and the unscoped one
ResolveAgendaIds(scoped, unscoped) == IF scoped = <<>> THEN unscoped ELSE scoped

\* lines 243-254: the for loop takes the next place, resolves its agenda ids
\* (practice-scoped, unscoped when that is empty) and calls try_to_book_place,
\* or ends and try_to_book returns False
Place ==
    /\ pc = "place"
    /\ UNCHANGED fnVars
    /\ lastReq' = "none"
    /\ NoWire
    /\ \/ /\ placeIdx < Len(places)
          /\ LET i == NextPlaceIdx(placeIdx)
                 scoped == get_agenda_ids(agendas, motive_ids, places[i])
             IN /\ placeIdx' = i
                /\ practice_id' = places[i]
                /\ agenda_ids' = ResolveAgendaIds(scoped,
                                       get_agenda_ids(agendas, motive_ids, None))
                /\ lookups' = IF scoped = <<>> THEN <<places[i], None>>
                              ELSE <<places[i]>>
          /\ date' = Today
          /\ polls' = 0
          /\ slot' = NullSlot /\ second_slot' = NoTime /\ a_id' = None
          /\ custom_fields' = <<>>
          /\ data' = NoData /\ created' = NoData /\ prompted' = <<>>
          /\ mine' = None /\ reqs' = <<>> /\ result' = "none" /\ confirmed' = FALSE
          /\ pc' = "avail"
          /\ UNCHANGED <<city, exitCode, exc, genVars, center, motive_ids, places,
                         agendas, appts>>
       \/ /\ placeIdx >= Len(places)
          /\ pc' = "sleep_center"
          /\ ClearBook
          /\ ClearPlace
          /\ UNCHANGED <<city, exitCode, exc, genVars, appts>>

\* -------------------------------------------------------- try_to_book_place
\* mutant: the error key is never seen
is_error_never(doc_has_error) == FALSE

\* AppointmentPage.is_error
is_error(doc_has_error) == doc_has_error

\* try_to_book_place returns v: try_to_book goes on with the next place on a
\* false value and returns True on a true one, on which main returns 0
\* (lines 251-252, 433-435)
Return(v) ==
    /\ result' = v
    /\ IF v = "True"
       THEN pc' = "done" /\ exitCode' = 0
       ELSE pc' = "place" /\ exitCode' = exitCode
    /\ ClearLocals

\* the service may drop the user's temporary (unconfirmed) appointments when a
\* query carries destroy_temporary (line 264); whether it does is the service's
\* what the service can do on such a query: drop them or not (with none to
\* drop there is nothing to choose)
DropChoices == IF Outstanding = {} THEN {FALSE} ELSE BOOLEAN

DestroyTemporary(drop) ==
    IF drop THEN [i \in ApptIds |-> IF appts[i] = "created" THEN "free" ELSE appts[i]]
    ELSE appts

\* mutant: every query of the polling loop asks for today
AvailParamsToday(d, mids, aids, practice) ==
    [start_date |-> Today, visit_motive_ids |-> Join(mids), agenda_ids |-> Join(aids),
     first_slot |-> NoTime, practice_ids |-> practice]

\* lines 259-265: the parameters of availabilities.go
AvailParams(d, mids, aids, practice) ==
    [start_date |-> d, visit_motive_ids |-> Join(mids), agenda_ids |-> Join(aids),
     first_slot |-> NoTime, practice_ids |-> practice]

\* lines 258-284: one availabilities.go of the polling loop; the response
\* without next_slot ends the loop and the slot is selected from it
Avail ==
    /\ pc = "avail"
    /\ UNCHANGED fnVars
    /\ \/ \* the response carries next_slot
          /\ polls < MaxPolls
          /\ \E hint \in HintDocs, drop \in DropChoices :
                /\ doc' = hint
                /\ date' = hint.next_slot
                /\ appts' = DestroyTemporary(drop)
          /\ polls' = polls + 1
          /\ lastReq' = "availabilities"
          /\ params' = AvailParams(date, motive_ids, agenda_ids, practice_id)
          /\ body' = NoData
          /\ UNCHANGED <<city, pc, exitCode, exc, genVars, bookVars, practice_id,
                         agenda_ids, slot, second_slot, a_id, custom_fields, mine, reqs,
                         result, confirmed, txVars>>
       \/ \* no next_slot: 'no availabilities', 'first slot not found',
          \* 'error while fetching first slot', or a slot
          \E availabilities \in Payloads, drop \in DropChoices :
            LET best == find_best_slot(availabilities) IN
            /\ IsDict(best) => HasStartDate(best)
            /\ appts' = DestroyTemporary(drop)
            /\ lastReq' = "availabilities"
            /\ params' = AvailParams(date, motive_ids, agenda_ids, practice_id)
            /\ doc' = [NoDoc EXCEPT !.availabilities = availabilities]
            /\ body' = NoData
            /\ IF Len(availabilities) = 0 \/ Falsy(best) \/ ~IsDict(best)
               THEN Return("False")
               ELSE /\ slot' = best
                    /\ date' = None /\ polls' = 0
                    /\ pc' = "create"
                    /\ UNCHANGED <<exitCode, result, practice_id, agenda_ids, second_slot,
                                   a_id, custom_fields, txVars>>
            /\ UNCHANGED <<city, exc, genVars, bookVars, mine, reqs, confirmed>>
       \/ \* line 284: slot['start_date'] on a dict without the key
          \E availabilities \in Payloads, drop \in DropChoices :
            LET best == find_best_slot(availabilities) IN
            /\ IsDict(best) /\ ~HasStartDate(best)
            /\ appts' = DestroyTemporary(drop)
            /\ lastReq' = "availabilities"
            /\ params' = AvailParams(date, motive_ids, agenda_ids, practice_id)
            /\ doc' = [NoDoc EXCEPT !.availabilities = availabilities]
            /\ body' = NoData
            /\ Except("KeyError")
            /\ UNCHANGED <<city, genVars>>
       \/ /\ Raises("availabilities")

\* ids the service can give a new appointment
FreeIds == {i \in ApptIds : appts[i] = "free"}
\* the id the service gives the next appointment
NewId == CHOOSE i \in FreeIds : \A j \in FreeIds : i <= j

\* lines 286-293: the dict data of the first-dose create request
CreateData(s, mids, aids, practice) ==
    [agenda_ids |-> Join(aids), start_date |-> s.start_date,
     visit_motive_ids |-> Join(mids), practice_ids |-> practice,
     second_slot |-> NoTime, custom_fields_values |-> <<>>]

\* lines 286-301: the first-dose create request
Create ==
    /\ pc = "create"
    /\ UNCHANGED fnVars
    /\ \/ \E has_error \in BOOLEAN :
            /\ ~has_error => FreeIds # {}
            /\ lastReq' = "appointment"
            /\ body' = CreateData(slot, motive_ids, agenda_ids, practice_id)
            /\ doc' = NoDoc /\ params' = NoParams
            /\ reqs' = Append(reqs, [url |-> "appointment",
                                     outcome |-> IF has_error THEN "error" ELSE "ok"])
            /\ IF is_error(has_error)
               THEN /\ Return("False")
                    /\ UNCHANGED <<appts, mine>>
               ELSE /\ appts' = IF has_error THEN appts
                               ELSE [appts EXCEPT ![NewId] = "created"]
                    /\ mine' = IF has_error THEN mine ELSE NewId
                    /\ data' = CreateData(slot, motive_ids, agenda_ids, practice_id)
                    /\ created' = CreateData(slot, motive_ids, agenda_ids, practice_id)
                    /\ pc' = "second_avail"
                    /\ UNCHANGED <<exitCode, result, practice_id, agenda_ids, date, polls,
                                   slot, second_slot, a_id, custom_fields, lookups,
                                   prompted>>
            /\ UNCHANGED <<city, exc, genVars, bookVars, confirmed>>
       \/ /\ Raises("appointment")

\* mutant: the transaction cancels its appointment when it gives up
FailAfterCreateCancel == appts' = [appts EXCEPT ![mine] = "free"]

\* lines 312-314 and 321-323: the transaction gives up after the first-dose
\* appointment was created; no request is sent for that appointment
FailAfterCreate == appts' = appts

\* mutant: the query starts at the first dose's day and pins the step-1 time
SecondParamsSwapped(s, mids, aids, practice) ==
    [start_date |-> DatePart(s.start_date), visit_motive_ids |-> Join(mids),
     agenda_ids |-> Join(aids), first_slot |-> s.step1, practice_ids |-> practice]

\* lines 303-309: the parameters of second_shot_availabilities.go
SecondParams(s, mids, aids, practice) ==
    [start_date |-> DatePart(s.step1), visit_motive_ids |-> Join(mids),
     agenda_ids |-> Join(aids), first_slot |-> s.start_date, practice_ids |-> practice]

\* lines 303-316: the second-dose availability query and slot selection
SecondAvail ==
    /\ pc = "second_avail"
    /\ UNCHANGED fnVars
    /\ \/ \* line 303: slot['steps'][1]['start_date'] cannot be read
          /\ ~HasStep1(slot)
          /\ Crash("none", "KeyError")
       \/ /\ HasStep1(slot)
          /\ \E availabilities \in Payloads :
               LET second == find_best_slot(availabilities) IN
               /\ Falsy(second) \/ HasStartDate(second)
               /\ lastReq' = "second_shot_availabilities"
               /\ params' = SecondParams(slot, motive_ids, agenda_ids, practice_id)
               /\ doc' = [NoDoc EXCEPT !.availabilities = availabilities]
               /\ body' = NoData
               /\ reqs' = Append(reqs, [url |-> "second_shot_availabilities",
                                        outcome |-> "ok"])
               /\ IF Falsy(second)
                  THEN /\ FailAfterCreate
                       /\ Return("False")
                  ELSE /\ second_slot' = second.start_date
                       /\ pc' = "update"
                       /\ UNCHANGED <<exitCode, result, practice_id, agenda_ids, date,
                                      polls, slot, a_id, custom_fields, appts, txVars>>
          /\ UNCHANGED <<city, exc, genVars, bookVars, mine, confirmed>>
       \/ \* line 316: second_slot['start_date'] on a value that is no dict
          \* (TypeError) or a dict without the key (KeyError)
          /\ HasStep1(slot)
          /\ \E availabilities \in Payloads :
               LET second == find_best_slot(availabilities) IN
               /\ ~Falsy(second) /\ ~HasStartDate(second)
               /\ Crash("second_shot_availabilities",
                        IF IsDict(second) THEN "KeyError" ELSE "TypeError")
       \/ /\ HasStep1(slot)
          /\ Raises("second_shot_availabilities")

\* mutant: the update rebuilds the dict and loses the agenda ids
UpdateDataNoAgendas(d, second) ==
    [d EXCEPT !.second_slot = second, !.agenda_ids = ""]

\* line 318: data['second_slot'] = second_slot['start_date']
UpdateData(d, second) == [d EXCEPT !.second_slot = second]

\* lines 318-325: the appointment request carrying second_slot
Update ==
    /\ pc = "update"
    /\ UNCHANGED fnVars
    /\ \/ \E has_error \in BOOLEAN :
            /\ lastReq' = "appointment_second"
            /\ body' = UpdateData(data, second_slot)
            /\ doc' = NoDoc /\ params' = NoParams
            /\ reqs' = Append(reqs, [url |-> "appointment_second",
                                     outcome |-> IF has_error THEN "error" ELSE "ok"])
            /\ IF is_error(has_error)
               THEN /\ FailAfterCreate
                    /\ Return("False")
               ELSE /\ a_id' = mine
                    /\ data' = UpdateData(data, second_slot)
                    /\ pc' = "edit1"
                    /\ UNCHANGED <<exitCode, result, practice_id, agenda_ids, date, polls,
                                   slot, second_slot, custom_fields, appts, created,
                                   lookups, prompted>>
            /\ UNCHANGED <<city, exc, genVars, bookVars, mine, confirmed>>
       \/ /\ Raises("appointment_second")

\* line 327: appointment_edit.go(id=a_id)
Edit1 ==
    /\ pc = "edit1"
    /\ UNCHANGED fnVars
    /\ \/ /\ lastReq' = "appointment_edit"
          /\ NoWire
          /\ reqs' = Append(reqs, [url |-> "appointment_edit", outcome |-> "ok"])
          /\ pc' = "edit2"
          /\ UNCHANGED <<city, exitCode, exc, genVars, bookVars, practice_id,
                         agenda_ids, date, polls, slot, second_slot, a_id, custom_fields,
                         mine, result, confirmed, appts, txVars>>
       \/ /\ Raises("appointment_edit")

\* the lines standard input can hold for the fields of the view: lines[i] is
\* the line read for fields[i], and the empty line where none is read
InputLines(fields) ==
    {l \in [1..Len(fields) -> Lines] :
        \A i \in 1..Len(fields) :
            ~(fields[i].required /\ Prompts(fields[i])) =>
                l[i] = [text |-> "", padded |-> FALSE]}

\* lines 330-342: appointment_edit.go with master_patient_id, then the
\* custom_fields dict from the required fields, reading a line where needed
Edit2 ==
    /\ pc = "edit2"
    /\ UNCHANGED fnVars
    /\ \/ \E fields \in FieldDocs :
          \E lines \in InputLines(fields) :
            /\ lastReq' = "appointment_edit_patient"
            /\ doc' = [NoDoc EXCEPT !.custom_fields = fields]
            /\ params' = NoParams /\ body' = NoData
            /\ reqs' = Append(reqs, [url |-> "appointment_edit_patient", outcome |-> "ok"])
            /\ custom_fields' = BuildCustomFields(fields, lines, 1)
            /\ prompted' = Readlines(fields, lines, 1)
            /\ pc' = "finalize"
            /\ UNCHANGED <<city, exitCode, exc, genVars, bookVars, practice_id,
                           agenda_ids, date, polls, slot, second_slot, a_id, mine, result,
                           confirmed, appts, data, created, lookups>>
       \/ /\ Raises("appointment_edit_patient")

\* lines 344-353: the dict data of the finalize PUT
FinalizeData(fields) == [NoData EXCEPT !.custom_fields_values = fields]

\* lines 344-357: the finalize PUT; the service confirms the appointment or
\* asks for a manual step (redirection) and leaves it unconfirmed
Finalize ==
    /\ pc = "finalize"
    /\ UNCHANGED fnVars
    /\ \/ \E confirms \in BOOLEAN :
            /\ lastReq' = "appointment_post_put"
            /\ body' = FinalizeData(custom_fields)
            /\ data' = FinalizeData(custom_fields)
            /\ doc' = NoDoc /\ params' = NoParams
            /\ reqs' = Append(reqs, [url |-> "appointment_post_put", outcome |-> "ok"])
            /\ appts' = IF confirms /\ a_id \in ApptIds
                        THEN [appts EXCEPT ![a_id] = "confirmed"] ELSE appts
            /\ pc' = "refetch"
            /\ UNCHANGED <<city, exitCode, exc, genVars, bookVars, practice_id,
                           agenda_ids, date, polls, slot, second_slot, a_id, custom_fields,
                           mine, result, confirmed, created, lookups, prompted>>
       \/ /\ Raises("appointment_post_put")

\* mutant: success is reported whatever the re-fetched document says
ReturnValueTrue(doc_confirmed) == "True"

\* line 362: the value try_to_book_place returns for the re-fetched document
ReturnValue(doc_confirmed) == IF doc_confirmed THEN "True" ELSE "False"

\* lines 359-362: the appointment is fetched again and its 'confirmed' returned
Refetch ==
    /\ pc = "refetch"
    /\ UNCHANGED fnVars
    /\ \/ LET c == a_id \in ApptIds /\ appts[a_id] = "confirmed" IN
          /\ lastReq' = "appointment_post_get"
          /\ NoWire
          /\ reqs' = Append(reqs, [url |-> "appointment_post_get", outcome |-> "ok"])
          /\ confirmed' = c
          /\ Return(ReturnValue(c))
          /\ UNCHANGED <<city, exc, genVars, bookVars, mine, appts>>
       \/ /\ Raises("appointment_post_get")

Next ==
    \/ Sweep \/ GenNext \/ SleepCenter \/ SleepSweep
    \/ BookOpen \/ BookPage \/ Place
    \/ Avail \/ Create \/ SecondAvail \/ Update
    \/ Edit1 \/ Edit2 \/ Finalize \/ Refetch

Spec == Init /\ [][Next]_vars

\* ------------------------------------------------ functions applied on their own
\* a pure function is about to be applied to arguments from its input set;
\* the program itself has not started
PureInit ==
    /\ ProgramInit
    /\ city = "berlin"
    /\ ret = <<>>
    /\ \/ fn = "find_best_slot" /\ args \in SeqsUpTo(DayEntries, MaxEntries)
       \/ /\ fn = "get_agenda_ids"
          /\ args \in [agendas : AgendaLists, motive_ids : MotiveIdLists,
                        practice_id : {None, 1, 2}]
       \/ fn = "normalize" /\ args \in SeqsUpTo(Chars, MaxChars)

Call_find_best_slot ==
    /\ fn = "find_best_slot" /\ ret = <<>>
    /\ ret' = <<find_best_slot(args)>>
    /\ UNCHANGED <<progVars, fn, args>>

Call_get_agenda_ids ==
    /\ fn = "get_agenda_ids" /\ ret = <<>>
    /\ ret' = <<get_agenda_ids(args.agendas, args.motive_ids, args.practice_id)>>
    /\ UNCHANGED <<progVars, fn, args>>

Call_normalize ==
    /\ fn = "normalize" /\ ret = <<>>
    /\ ret' = <<normalize(args)>>
    /\ UNCHANGED <<progVars, fn, args>>

PureNext == Call_find_best_slot \/ Call_get_agenda_ids \/ Call_normalize

PureSpec == PureInit /\ [][PureNext]_vars

\* ------------------------------------------------------------------ claims
Range(f) == {f[i] : i \in DOMAIN f}
SecondDoseRequests == {"second_shot_availabilities", "appointment_second"}
CreateAnswered(o) == \E j \in 1..Len(reqs) : reqs[j] = [url |-> "appointment", outcome |-> o]

\* C1: a second-dose request (the second_shot_availabilities query or the
\* appointment request carrying second_slot) is issued only by a call whose
\* first-dose create request was answered without an error, and never by a
\* call whose create request was answered with an error.
C1_SecondDoseOnlyAfterCreate ==
    [][lastReq' \in SecondDoseRequests =>
          /\ pc \in {"second_avail", "update"}
          /\ CreateAnswered("ok")
          /\ ~CreateAnswered("error")]_vars

\* a second-dose query has been answered in a call whose create succeeded
C1_Witness ==
    /\ pc = "update"
    /\ reqs = <<[url |-> "appointment", outcome |-> "ok"],
                [url |-> "second_shot_availabilities", outcome |-> "ok"]>>

\* the step is the first-dose create request answered with an error
CreateErrorStep ==
    /\ pc = "create" /\ lastReq' = "appointment"
    /\ reqs' = <<[url |-> "appointment", outcome |-> "error"]>>

\* C2: when the first-dose create response signals an error, try_to_book_place
\* returns failure having sent that one create request only and leaves the
\* state of the orchestration loop (generator, center, place cursor, exit
\* status) alone; the next step enters the next place of the same center, or,
\* after the last place, ends the center, after which the generator is resumed
\* where it stood.
C2_SlotTakenMovesOn ==
    [][/\ CreateErrorStep =>
             /\ pc' = "place" /\ result' = "False"
             /\ UNCHANGED <<city, exitCode, exc, genVars, bookVars, appts>>
       /\ (pc = "place" /\ reqs = <<[url |-> "appointment", outcome |-> "error"]>>) =>
             IF placeIdx < Len(places)
             THEN /\ pc' = "avail" /\ placeIdx' = placeIdx + 1
                  /\ practice_id' = places[placeIdx + 1]
                  /\ UNCHANGED <<center, genVars>>
             ELSE pc' = "sleep_center" /\ UNCHANGED genVars
       /\ pc = "sleep_center" => (pc' = "gen" /\ UNCHANGED genVars)]_vars

\* a create request was answered with an error at a place that is not the last
C2_Witness ==
    /\ pc = "place" /\ result = "False"
    /\ reqs = <<[url |-> "appointment", outcome |-> "error"]>>
    /\ placeIdx < Len(places)

\* C3: a read timeout or connection error raised anywhere in a sweep abandons
\* the sweep: the next steps are the pause and then a fresh find_centers call
\* whose generator starts at the first search result.
C3_TransientRestartsSweep ==
    [][/\ exc' \in TransientErrors =>
             (pc' = "sleep_sweep" /\ center' = NoCenter /\ exitCode' = exitCode)
       /\ pc = "sleep_sweep" => pc' = "sweep"
       /\ pc = "sweep" => (lastReq' = "centers" /\ genPos' = 0 /\ yielded' = <<>>)]_vars

\* a network error was raised after the generator had moved past its start
C3_Witness == pc = "sleep_sweep" /\ exc \in TransientErrors /\ genPos > 0

\* C4: at most one appointment created by the program is outstanding on the
\* service (created and neither confirmed nor cancelled) at every instant.
C4_AtMostOneOutstanding == Cardinality(Outstanding) <= 1

\* C5: when the transaction returns failure after its first-dose appointment
\* was created (no second-dose slot, or an error answer to the second-dose
\* request), that appointment is still created on the service.
C5_NoCleanupOnFailure ==
    (pc = "place" /\ result = "False" /\ mine # None) =>
        (mine \in ApptIds /\ appts[mine] = "created")

\* the transaction failed for want of a second-dose slot
C5_Witness ==
    /\ pc = "place" /\ result = "False" /\ mine # None
    /\ reqs[Len(reqs)].url = "second_shot_availabilities"

\* the generator ends without raising: StopIteration reaches the for loop
GeneratorEnds == pc \in {"sweep", "gen"} /\ pc' = "sleep_sweep" /\ exc' = "none"

\* C6 as claimed: for 'berlin' every enumeration that ends without raising has
\* yielded the hard-coded fallback center.
C6_FallbackAlwaysYielded ==
    [][(GeneratorEnds /\ city = "berlin") => BerlinCenter \in Range(yielded')]_vars

\* C6 amended: for 'berlin' every enumeration that ends without raising after
\* a city search that was not answered with 503 has yielded the fallback
\* center, as its last center, whatever the search results were.
C6_FallbackYieldedUnless503 ==
    [][(GeneratorEnds /\ city = "berlin" /\ searchStatus' # 503) =>
          (yielded' # <<>> /\ yielded'[Len(yielded')] = BerlinCenter)]_vars

\* an enumeration for 'berlin' whose only search result lacked search_result
C6_Witness ==
    /\ pc = "sleep_sweep" /\ exc = "none" /\ city = "berlin"
    /\ nIds > 0 /\ yielded = <<BerlinCenter>>

\* C7: a 503 answer to the city search makes find_centers end without a center
\* and without raising: the run is not terminated, the loop pauses and starts
\* a new sweep.
C7_ServerUnavailableIsEmptySweep ==
    [][/\ (lastReq' = "centers" /\ searchStatus' = 503) =>
             /\ pc' = "sleep_sweep" /\ exc' = "none" /\ exitCode' = -1
             /\ yielded' = <<>> /\ center' = NoCenter
       /\ (pc = "sleep_sweep" /\ searchStatus = 503) => (pc' = "sweep" /\ exitCode' = -1)]_vars

\* the city search was answered with 503
C7_Witness == pc = "sleep_sweep" /\ searchStatus = 503 /\ exc = "none"

\* C8: the loop ends with exit code 0 exactly when a transaction returns a
\* true value, which is the confirmed flag the service holds for the
\* re-fetched appointment; nothing is attempted afterwards.
C8_SuccessIffConfirmed ==
    [][/\ exitCode' = 0 <=> result' = "True"
       /\ lastReq' = "appointment_post_get" /\ result' # "none" =>
             /\ confirmed' = (appts[a_id] = "confirmed")
             /\ result' = "True" <=> confirmed'
       /\ result' = "True" => (pc' = "done" /\ lastReq' = "appointment_post_get")
       /\ exitCode = 0 => UNCHANGED vars]_vars

\* the loop ended with success
C8_Witness == pc = "done" /\ exitCode = 0 /\ confirmed

\* C9: a not-found answer to the city search makes find_centers raise
\* CityNotFound, on which the loop ends with exit code 1, no center attempted
\* and no further sweep started.
C9_CityNotFoundIsFatal ==
    [][/\ (lastReq' = "centers" /\ searchStatus' = 404) =>
             /\ pc' = "done" /\ exitCode' = 1 /\ exc' = "CityNotFound"
             /\ yielded' = <<>> /\ center' = NoCenter
       /\ exc = "CityNotFound" => UNCHANGED vars]_vars

\* the run ended on CityNotFound
C9_Witness == pc = "done" /\ exitCode = 1 /\ exc = "CityNotFound" /\ searchStatus = 404

\* C10: a selected value that is not slot-shaped never makes the transaction
\* crash, at the first-dose selection or at the second-dose one: no KeyError
\* or TypeError leaves the process after an availability answer.
C10_MalformedSlotNeverCrashes ==
    ~(/\ pc = "crashed"
      /\ lastReq \in {"availabilities", "second_shot_availabilities"}
      /\ exc \in {"KeyError", "TypeError"})

\* the step is a query of the availability poller that was answered
Polled == pc = "avail" /\ lastReq' = "availabilities" /\ params' # NoParams

\* C11: the first availability query of a place asks for today, every later
\* one for the next_slot of the response before it; a response with next_slot
\* keeps the poller polling and selects nothing; the first response without
\* next_slot ends the polling, and it is that response's availabilities whose
\* emptiness decides the failure and from which the slot is selected.
C11_PollerFollowsNextSlot ==
    [][Polled =>
          /\ params'.start_date = (IF polls = 0 THEN Today ELSE doc.next_slot)
          /\ doc'.next_slot # None =>
                (pc' = "avail" /\ date' = doc'.next_slot /\ slot' = NullSlot
                 /\ result' = "none")
          /\ doc'.next_slot = None =>
                /\ pc' \in {"create", "place", "crashed"}
                /\ Len(doc'.availabilities) = 0 => (pc' = "place" /\ result' = "False")
                /\ pc' = "create" =>
                      /\ Len(doc'.availabilities) > 0
                      /\ slot' = find_best_slot(doc'.availabilities)]_vars

\* a slot was selected from the answer to a query for a hinted date, a slot the
\* hinting response did not offer
C11_Witness ==
    /\ pc = "create" /\ params.start_date = 2
    /\ slot.start_date = [date |-> 1, time |-> 2]
    /\ slot = find_best_slot(doc.availabilities)

\* C12: find_best_slot returns the last slot of the first day-entry, in
\* response order, whose slots array is not empty, and no slot when every
\* day-entry has an empty slots array.
C12_BestSlotIsLastOfFirstDay ==
    (fn = "find_best_slot" /\ ret # <<>>) =>
        IF \A i \in 1..Len(args) : Len(args[i].slots) = 0
        THEN ret[1] = NullSlot
        ELSE \E i \in 1..Len(args) :
                /\ Len(args[i].slots) > 0
                /\ \A j \in 1..(i - 1) : Len(args[j].slots) = 0
                /\ ret[1] = args[i].slots[Len(args[i].slots)]

\* an empty day, then a day with two slots, then another day with slots
C12_Witness ==
    /\ fn = "find_best_slot" /\ ret # <<>> /\ Len(args) = 3
    /\ Len(args[1].slots) = 0 /\ Len(args[2].slots) = 2 /\ Len(args[3].slots) > 0
    /\ args[2].slots[1] # args[2].slots[2]
    /\ ret[1] = args[2].slots[2]

\* C13: the agenda ids of a place are the result of the practice-scoped lookup
\* when that is not empty and else the result of the lookup without a practice
\* filter, which is made only when the scoped result is empty; these are the
\* ids the availability queries and the create request of the place carry.
C13_AgendaFallback ==
    [][/\ (pc = "place" /\ pc' = "avail") =>
             LET p == places[placeIdx']
                 scoped == get_agenda_ids(agendas, motive_ids, p)
                 unscoped == get_agenda_ids(agendas, motive_ids, None)
             IN /\ practice_id' = p
                /\ agenda_ids' = IF scoped # <<>> THEN scoped ELSE unscoped
                /\ lookups' = IF scoped # <<>> THEN <<p>> ELSE <<p, None>>
       /\ Polled => params'.agenda_ids = Join(agenda_ids)
       /\ (pc = "create" /\ body' # NoData) =>
             (body'.agenda_ids = Join(agenda_ids) /\ agenda_ids' \in {agenda_ids, <<>>})
       /\ pc \in {"avail", "create"} => agenda_ids' \in {agenda_ids, <<>>}]_vars

\* the scoped lookup of a place was empty and the unscoped one was not, and
\* its ids went out in an availability query
C13_Witness ==
    /\ lookups = <<practice_id, None>> /\ agenda_ids # <<>>
    /\ lastReq = "availabilities" /\ params.agenda_ids = Join(agenda_ids)

\* the step is a second-dose availability query that was answered
SecondPolled ==
    pc = "second_avail" /\ lastReq' = "second_shot_availabilities" /\ params' # NoParams

\* C15: a second-dose slot is chosen only by the step that queries the
\* second-dose availabilities, from the answer to that query, and the query
\* carries as first_slot the start time of the first-dose slot the call has
\* just created and as start_date the date part of that slot's step 1 start
\* time.
C15_SecondDoseQueryPinned ==
    [][/\ SecondPolled =>
             /\ created # NoData /\ created.start_date = slot.start_date
             /\ params'.first_slot = created.start_date
             /\ params'.start_date = slot.step1.date
             /\ second_slot' # NoTime =>
                   second_slot' = find_best_slot(doc'.availabilities).start_date
       /\ (second_slot' # NoTime /\ second_slot' # second_slot) => SecondPolled]_vars

\* a second-dose slot was chosen
C15_Witness ==
    /\ pc = "update" /\ lastReq = "second_shot_availabilities"
    /\ second_slot = find_best_slot(doc.availabilities).start_date
    /\ second_slot # NoTime
    /\ params.first_slot = slot.start_date /\ params.start_date = 2

\* C16: the update request of a call carries the joined motive ids, the joined
\* agenda ids, the practice id and the first-dose start time that its create
\* request carried, and in addition the chosen second_slot; the create request
\* carries no second_slot.
C16_UpdateRepeatsCreate ==
    [][/\ (pc = "create" /\ lastReq' = "appointment" /\ body' # NoData) =>
             /\ body'.second_slot = NoTime
             /\ pc' = "second_avail" => created' = body'
       /\ (pc = "update" /\ lastReq' = "appointment_second" /\ body' # NoData) =>
             /\ created # NoData
             /\ body'.visit_motive_ids = created.visit_motive_ids
             /\ body'.agenda_ids = created.agenda_ids
             /\ body'.practice_ids = created.practice_ids
             /\ body'.start_date = created.start_date
             /\ body'.second_slot = second_slot /\ second_slot # NoTime
       /\ pc \in {"second_avail", "update"} => created' \in {created, NoData}]_vars

\* an update request went out for an appointment with two motives
C16_Witness ==
    /\ pc = "edit1" /\ lastReq = "appointment_second"
    /\ body = [created EXCEPT !.second_slot = second_slot]
    /\ body.visit_motive_ids = "1-2" /\ body.agenda_ids # ""

\* the field is one the loop of lines 333-342 reads a line for
NeedsLine(f) == f.required /\ f.id # "cov19" /\ f.placeholder = ""

\* the number of fields among the first i that a line is read for
RECURSIVE LinesReadUpTo(_, _)
LinesReadUpTo(fs, i) ==
    IF i = 0 THEN 0
    ELSE LinesReadUpTo(fs, i - 1) + (IF NeedsLine(fs[i]) THEN 1 ELSE 0)

\* C17: the custom_fields_values of the finalize request have an entry for
\* exactly the required fields of the appointment-edit view: 'Non' for the id
\* cov19 whatever its placeholder, else the placeholder when it is not empty,
\* else the line read from the user (without the surrounding whitespace); the
\* user is prompted, in field order, for exactly the required fields with
\* neither the cov19 id nor a placeholder.
C17_CustomFieldValues ==
    [][(pc = "finalize" /\ pc' = "refetch") =>
          LET fs == doc.custom_fields
              v == body'.custom_fields_values
              req == {i \in 1..Len(fs) : fs[i].required}
          IN /\ lastReq' = "appointment_post_put"
             /\ DOMAIN v = {fs[i].id : i \in req}
             /\ \A i \in req :
                   v[fs[i].id] =
                      IF fs[i].id = "cov19" THEN "Non"
                      ELSE IF fs[i].placeholder # "" THEN fs[i].placeholder
                      ELSE prompted[LinesReadUpTo(fs, i)].line.text
             /\ Len(prompted) = LinesReadUpTo(fs, Len(fs))
             /\ \A i \in 1..Len(fs) :
                   NeedsLine(fs[i]) => prompted[LinesReadUpTo(fs, i)].id = fs[i].id]_vars

\* the finalize request went out for a view with a cov19 field that has a
\* placeholder, a field with a placeholder, a field that is not required and
\* a field the user typed a padded line for
C17_Witness ==
    /\ pc = "refetch" /\ lastReq = "appointment_post_put"
    /\ body.custom_fields_values = ("cov19" :> "Non") @@ ("f1" :> "ph") @@ ("f3" :> "typed")
    /\ prompted = <<[id |-> "f3", line |-> [text |-> "typed", padded |-> TRUE]]>>

\* the step is a booking page answered without a motive of the vaccine filter
NoMotiveStep ==
    /\ pc = "book_page" /\ lastReq' = "center_booking" /\ exc' = "none"
    /\ \A i \in 1..Len(doc'.visit_motives) :
          doc'.visit_motives[i].name \notin {"Pfizer", "Moderna", "Janssen"}

\* C18: when no motive of a center's booking page matches the vaccine filter,
\* the attempt on the center ends in failure at once (no place is entered, so
\* no availability or appointment request is sent for it); the run does not
\* end: the loop pauses and resumes the generator where it stood, whose next
\* step fetches the next search result, yields the next center or ends the
\* sweep.
C18_NoMotiveFailsCenter ==
    [][/\ NoMotiveStep =>
             /\ pc' = "sleep_center" /\ exitCode' = -1
             /\ center' = NoCenter /\ places' = <<>>
             /\ UNCHANGED <<genVars, appts, placeVars>>
       /\ pc = "sleep_center" =>
             (pc' = "gen" /\ lastReq' = "none" /\ exitCode' = -1 /\ UNCHANGED genVars)
       /\ pc = "gen" =>
             /\ lastReq' \in {"center_result", "none"}
             /\ pc' = "book_open" => (genPos' = genPos + 1 /\ center' # NoCenter)]_vars

\* a center offering AstraZeneca only has failed, and the generator has the
\* Berlin center left to yield
C18_Witness ==
    /\ pc = "sleep_center" /\ lastReq = "center_booking"
    /\ doc.visit_motives = <<[id |-> 1, name |-> "AstraZeneca"]>>
    /\ city = "berlin" /\ nIds = 1 /\ genPos = 1

\* the agenda is one get_agenda_ids is claimed to select
Selected(a, mids, practice) ==
    /\ \E k \in 1..Len(mids) : mids[k] \in a.visit_motive_ids
    /\ ~a.booking_disabled
    /\ (practice # None => a.practice_id = practice)

\* C14: get_agenda_ids returns, once each and in agenda order, exactly the ids
\* of the agendas that share a motive id with the given ones, are not
\* booking_disabled, and have the given practice id when one is given.
C14_AgendaIdsOnceEach ==
    (fn = "get_agenda_ids" /\ ret # <<>>) =>
        LET sel == SelectSeq(args.agendas,
                             LAMBDA a : Selected(a, args.motive_ids, args.practice_id))
        IN ret[1] = [i \in 1..Len(sel) |-> sel[i].id]

\* what the claim says of a string: every maximal run of non-word characters
\* is one hyphen
RECURSIVE CollapseRuns(_)
CollapseRuns(string) ==
    IF string = <<>> THEN <<>>
    ELSE IF Head(string) \in WordChars
         THEN <<Head(string)>> \o CollapseRuns(Tail(string))
         ELSE IF Tail(string) # <<>> /\ Head(Tail(string)) \notin WordChars
              THEN CollapseRuns(Tail(string))
              ELSE <<"-">> \o CollapseRuns(Tail(string))

\* C19 as claimed: normalize turns every maximal run of non-word characters of
\* the string without its diacritics into a single hyphen, and lowercases.
C19_RunsBecomeOneHyphen ==
    (fn = "normalize" /\ ret # <<>>) =>
        ret[1] = lower(CollapseRuns(StripCombining(NFKD(args))))

\* C19 amended: normalize turns every non-word character of the string without
\* its diacritics into a hyphen of its own, keeps every word character in its
\* place, and lowercases: a run of n non-word characters becomes n hyphens.
C19_EachNonWordBecomesHyphen ==
    (fn = "normalize" /\ ret # <<>>) =>
        LET s == StripCombining(NFKD(args)) IN
        /\ Len(ret[1]) = Len(s)
        /\ \A i \in 1..Len(s) :
              ret[1][i] = IF s[i] \in WordChars THEN LowerChar(s[i]) ELSE "-"

\* an accented letter followed by a run of two non-word characters
C19_Witness ==
    /\ fn = "normalize" /\ args = <<"é", " ", "-">>
    /\ ret = << <<"e", "-", "-">> >>

\* C20 as claimed: the loop ends only when a transaction confirms (exit 0) or
\* CityNotFound is signalled (exit 1).
C20_OnlyTwoExits ==
    exitCode # -1 =>
        \/ exitCode = 0 /\ result = "True"
        \/ exitCode = 1 /\ exc = "CityNotFound"

\* C20 amended: the loop counts no retries and ends only when a transaction
\* confirms (exit 0), when CityNotFound is signalled (exit 1), or when an
\* exception that is neither CityNotFound nor a transient-network one escapes
\* it; a sweep that ends otherwise (every center failed, none yielded, a
\* transient-network exception) is followed by the pause and a new sweep, and
\* the pause between centers by the next resumption of the generator.
C20_ExitsAndRetries ==
    [][/\ (exitCode = -1 /\ exitCode' # -1) =>
             \/ exitCode' = 0 /\ pc' = "done" /\ result' = "True"
             \/ exitCode' = 1 /\ pc' = "done" /\ exc' = "CityNotFound"
             \/ /\ exitCode' = 1 /\ pc' = "crashed"
                /\ exc' \notin TransientErrors \cup {"none", "CityNotFound"}
       /\ exitCode # -1 => UNCHANGED vars
       /\ (exc' \in TransientErrors /\ pc # "sleep_sweep") =>
             (pc' = "sleep_sweep" /\ exitCode' = -1)
       /\ (pc \in {"sweep", "gen"} /\ pc' \notin {"gen", "book_open"} /\ exc' = "none") =>
             (pc' = "sleep_sweep" /\ exitCode' = -1)
       /\ pc = "sleep_sweep" => (pc' = "sweep" /\ exitCode' = -1)
       /\ pc = "sleep_center" => (pc' = "gen" /\ exitCode' = -1)
       /\ pc = "sweep" => lastReq' = "centers"]_vars

\* a sweep in which centers were attempted has ended without a booking, the
\* pause is over and the next sweep is about to start
C20_Witness ==
    pc = "sweep" /\ yielded # <<>> /\ exc = "none" /\ exitCode = -1

====
